---- MODULE Spec2Model ----
(***************************************************************************)
(* abes_nice_procs (src/src/lib.rs): the `method!` snippet-execution       *)
(* pipeline, run by several concurrent macro expansions that share one     *)
(* working directory, and the FromBinary / ToBinary derive pipeline        *)
(* (DeriveData::from followed by DeriveData::implement).                   *)
(***************************************************************************)
EXTENDS Integers, Sequences, FiniteSets, TLC

VARIABLES
    dir,        \* the working directory: path -> file content
    pc,         \* per expansion: the statement of `method` it is at
    name,       \* per expansion: the `path` identifier (first macro argument)
    body,       \* per expansion: the `code` text (remaining macro arguments)
    guards,     \* per expansion: the paths held by live DeleteOnDrop values
    compileSt,  \* per expansion: state of the rustc child process
    runSt,      \* per expansion: state of the child process running the binary
    image,      \* per expansion: what the live child process has loaded
    outcome,    \* per expansion: how the last invocation of `method` ended
    item,       \* derive pipeline: the declaration the derive is attached to
    input,      \* derive pipeline: the TokenStream handed to the derive macro
    which,      \* derive pipeline: the derive macro that ran (Which), or "none"
    data,       \* derive pipeline: the result of DeriveData::from(input)
    emitted     \* derive pipeline: what the derive macro evaluated to

execVars == <<dir, pc, name, body, guards, compileSt, runSt, image, outcome>>
deriveVars == <<item, input, which, data, emitted>>
vars == <<dir, pc, name, body, guards, compileSt, runSt, image, outcome,
          item, input, which, data, emitted>>

(***************************************************************************)
(* Two macro expansions run by the host build at the same time, each       *)
(* invoking `method` any number of times, and the names they may pass.     *)
(***************************************************************************)
Procs == {"e1", "e2"}

Names == {"a", "b"}

(***************************************************************************)
(* The snippets handed to `method!`, by what rustc and the compiled        *)
(* program do with them.                                                   *)
(***************************************************************************)
Bodies == {"print5", "printHello", "syntaxError", "exit1", "printBadUtf8", "printUnbalanced"}

Compiles(b) == b # "syntaxError"

ExitsOk(b) == b # "exit1"

Stdout(b) ==
    CASE b = "print5" -> "5"
      [] b = "printHello" -> "\"Hello\""
      [] b = "printBadUtf8" -> "<0xFF>"
      [] b = "printUnbalanced" -> "("
      [] OTHER -> ""

FromUtf8Ok(bytes) == bytes # "<0xFF>"

ParsesAsTokenStream(text) == text # "("

(***************************************************************************)
(* Files.                                                                  *)
(***************************************************************************)
\* Mutant: every invocation uses one fixed source file name.
RsPathFixed(n) == "a.rs"

RsPath(n) == n \o ".rs"

\* Mutant: every invocation uses one fixed binary name.
BinPathFixed(n) == "./a"

BinPath(n) == "./" \o n

Paths == {RsPath(n) : n \in Names} \cup {BinPath(n) : n \in Names}

Absent == [kind |-> "absent", body |-> ""]

SourceOf(b) == [kind |-> "source", body |-> b]

BinaryOf(b) == [kind |-> "binary", body |-> b]

NoOutcome == [kind |-> "none", val |-> ""]

Returned(tokens) == [kind |-> "returned", val |-> tokens]

Panicked(msg) == [kind |-> "panic", val |-> msg]

(***************************************************************************)
(* DeleteOnDrop.                                                           *)
(***************************************************************************)
\* Mutant: the guard is never registered.
DeleteOnDropForgotten(g, path) == g

DeleteOnDropNew(g, path) == g \cup {path}

\* Mutant: dropping the guard leaves the file in place.
RemoveFileSkipped(d, path) == d

RemoveFile(d, path) == [d EXCEPT ![path] = Absent]

(***************************************************************************)
(* `method`, statement by statement.                                       *)
(***************************************************************************)
FsWrite(d, path, b) == [d EXCEPT ![path] = SourceOf(b)]

\* Mutant: the compile status is not looked at.
CompileStatusIgnored(status) == FALSE

CompileFailed(status) == status # "ok"

RunFailed(status) == status # "ok"

\* The value `method` evaluates to once the child has exited with a success
\* status: String::from_utf8(..).unwrap().parse::<TokenStream>().unwrap().
Reparse(bytes) ==
    IF ~FromUtf8Ok(bytes) THEN Panicked("from_utf8")
    ELSE IF ~ParsesAsTokenStream(bytes) THEN Panicked("parse")
    ELSE Returned(bytes)

(***************************************************************************)
(* TokenTree, and the token streams the derive macros are handed.          *)
(***************************************************************************)
MaxFields == 2

Ident(s) == [kind |-> "Ident", text |-> s, stream |-> <<>>]

Punct(c) == [kind |-> "Punct", text |-> c, stream |-> <<>>]

Literal(s) == [kind |-> "Literal", text |-> s, stream |-> <<>>]

Group(open, stream) == [kind |-> "Group", text |-> open, stream |-> stream]

RECURSIVE Joined(_, _)
\* The sequences `parts`, with the token `sep` between consecutive ones.
Joined(parts, sep) ==
    IF parts = <<>> THEN <<>>
    ELSE IF Len(parts) = 1 THEN parts[1]
    ELSE parts[1] \o <<sep>> \o Joined(Tail(parts), sep)

\* Field declarations: visibility tokens, name, type tokens.
FieldChoices ==
    { [vis |-> <<>>, name |-> "a", ty |-> <<Ident("u8")>>],
      [vis |-> <<>>, name |-> "b", ty |-> <<Ident("String")>>],
      [vis |-> <<>>, name |-> "m",
       ty |-> <<Ident("Map"), Punct("<"), Ident("u8"), Punct(","), Ident("u8"), Punct(">")>>],
      [vis |-> <<Ident("pub")>>, name |-> "a", ty |-> <<Ident("u8")>>] }

\* Generic parameter lists: name and bound tokens of each parameter.
GenericChoices ==
    { <<>>,
      << [name |-> "T", bound |-> <<>>] >>,
      << [name |-> "T", bound |-> <<Ident("Clone")>>],
         [name |-> "U", bound |-> <<Ident("Default")>>] >> }

\* Declarations `struct S<generics> { fields }`, with or without a trailing comma.
Items ==
    { it \in [kind : {"struct"}, generics : GenericChoices,
              fields : UNION { [1..k -> FieldChoices] : k \in 0..MaxFields },
              trailing : BOOLEAN] : it.trailing => it.fields # <<>> }

FieldTokens(f) == f.vis \o <<Ident(f.name), Punct(":")>> \o f.ty

ParamTokens(g) == IF g.bound = <<>> THEN <<Ident(g.name)>>
                  ELSE <<Ident(g.name), Punct(":")>> \o g.bound

\* The TokenStream of a declaration: `<`, `>`, `,` and `:` are Punct tokens,
\* the braces and what they enclose are one Group token.
Tokenize(it) ==
    <<Ident("pub"), Ident("struct"), Ident("S")>>
    \o (IF it.generics = <<>> THEN <<>>
        ELSE <<Punct("<")>>
             \o Joined([i \in 1..Len(it.generics) |-> ParamTokens(it.generics[i])], Punct(","))
             \o <<Punct(">")>>)
    \o << Group("{", Joined([i \in 1..Len(it.fields) |-> FieldTokens(it.fields[i])], Punct(","))
                     \o (IF it.trailing THEN <<Punct(",")>> ELSE <<>>)) >>

\* Other token streams, not all of them declarations.
RawBodies ==
    { <<>>,
      <<Ident("x")>>,
      <<Ident("x"), Punct(":")>>,
      <<Ident("a"), Punct(":"), Ident("u8")>>,
      <<Ident("x"), Punct(":"), Punct(","), Ident("a"), Punct(":"), Ident("u8")>>,
      <<Ident("A"), Punct("="), Literal("1")>> }

RawInputs ==
    { pre \o kw \o nm \o gen \o rest :
        pre \in {<<>>, <<Punct("#"), Group("[", <<Ident("repr"), Group("(", <<Ident("C")>>)>>)>>},
        kw \in {<<>>, <<Ident("struct")>>, <<Ident("enum")>>, <<Ident("union")>>},
        nm \in {<<>>, <<Ident("S")>>, <<Literal("5")>>},
        gen \in {<<>>, <<Punct("<"), Ident("T"), Punct(">")>>},
        rest \in {<<>>, <<Punct(";")>>, <<Group("(", <<Ident("u8")>>), Punct(";")>>}
                 \cup { <<Group("{", b)>> : b \in RawBodies }
                 \cup { <<Group("{", b), Group("{", <<>>)>> : b \in RawBodies } }

(***************************************************************************)
(* What::from_ident, DeriveData::from.                                     *)
(***************************************************************************)
\* Mutant: every identifier is taken for a declaration kind.
FromIdentAny(text) == "Struct"

FromIdent(text) ==
    CASE text = "struct" -> "Struct"
      [] text = "enum" -> "Enum"
      [] OTHER -> "None"

RECURSIVE TokenToString(_), CollectString(_)
\* TokenTree::to_string: a Group is its delimiters around its stream.
TokenToString(t) ==
    IF t.kind # "Group" THEN t.text
    ELSE t.text \o CollectString(t.stream)
         \o (CASE t.text = "{" -> "}" [] t.text = "(" -> ")" [] OTHER -> "]")

\* iter().map(|x| x.to_string()).collect::<String>()
CollectString(ts) == IF ts = <<>> THEN "" ELSE TokenToString(Head(ts)) \o CollectString(Tail(ts))

\* The closure given to split: a Punct whose text is ",".
IsComma(t) == t.kind = "Punct" /\ t.text = ","

RECURSIVE SplitFrom(_, _, _)
\* slice::split: the runs between matching elements, empty runs included.
SplitFrom(ts, i, cur) ==
    IF i > Len(ts) THEN <<cur>>
    ELSE IF IsComma(ts[i]) THEN <<cur>> \o SplitFrom(ts, i + 1, <<>>)
    ELSE SplitFrom(ts, i + 1, Append(cur, ts[i]))

Split(ts) == SplitFrom(ts, 1, <<>>)

RECURSIVE ScanWhat(_, _)
\* The first loop of `from`: the index of the first Ident that from_ident
\* recognises, 0 when the iterator runs out.
ScanWhat(ts, i) ==
    IF i > Len(ts) THEN 0
    ELSE IF ts[i].kind = "Ident" /\ FromIdent(ts[i].text) # "None" THEN i
    ELSE ScanWhat(ts, i + 1)

RECURSIVE ScanGroup(_, _, _)
\* The second loop of `from`: tokens are pushed onto `generic` until a Group.
ScanGroup(ts, i, generic) ==
    IF i > Len(ts) THEN [found |-> FALSE, generic |-> generic, stream |-> <<>>]
    ELSE IF ts[i].kind = "Group" THEN [found |-> TRUE, generic |-> generic, stream |-> ts[i].stream]
    ELSE ScanGroup(ts, i + 1, Append(generic, ts[i]))

Failed(msg) == [status |-> "panic", msg |-> msg, what |-> "None", name |-> "",
                generic |-> <<>>, fields |-> <<>>]

RECURSIVE PushFields(_, _, _)
\* The loop over the segments: field_tokens[0] and field_tokens[2..] panic
\* when out of range.
PushFields(segs, i, fields) ==
    IF i > Len(segs) THEN [status |-> "ok", msg |-> "", fields |-> fields]
    ELSE IF Len(segs[i]) < 1
        THEN [status |-> "panic", msg |-> "index out of bounds", fields |-> <<>>]
    ELSE IF Len(segs[i]) < 2
        THEN [status |-> "panic", msg |-> "range start index out of range", fields |-> <<>>]
    ELSE PushFields(segs, i + 1,
            Append(fields, [name |-> TokenToString(segs[i][1]),
                            data_type |-> CollectString(SubSeq(segs[i], 3, Len(segs[i])))]))

DeriveDataFrom(ts) ==
    LET w == ScanWhat(ts, 1) IN
    IF w = 0 THEN Failed("Missing what it is(struct/enum)")
    ELSE IF w + 1 > Len(ts) THEN Failed("Missing name")
    ELSE IF ts[w + 1].kind # "Ident" THEN Failed("name is not an Ident")
    ELSE LET scan == ScanGroup(ts, w + 2, <<>>) IN
         IF ~scan.found THEN Failed("Could not get fields")
         ELSE LET pushed == PushFields(Split(scan.stream), 1, <<>>) IN
              IF pushed.status = "panic" THEN Failed(pushed.msg)
              ELSE [status |-> "ok", msg |-> "", what |-> FromIdent(ts[w].text),
                    name |-> ts[w + 1].text, generic |-> scan.generic,
                    fields |-> pushed.fields]

NoItem == [kind |-> "none", generics |-> <<>>, fields |-> <<>>, trailing |-> FALSE]

NoData == [status |-> "none", msg |-> "", what |-> "None", name |-> "",
           generic |-> <<>>, fields |-> <<>>]

DeriveIdle ==
    /\ item = NoItem
    /\ input = <<>>
    /\ which = "none"
    /\ data = NoData
    /\ emitted = NoOutcome

ExecIdle ==
    /\ dir = [f \in Paths |-> Absent]
    /\ pc = [p \in Procs |-> "idle"]
    /\ name = [p \in Procs |-> "a"]
    /\ body = [p \in Procs |-> "print5"]
    /\ guards = [p \in Procs |-> {}]
    /\ compileSt = [p \in Procs |-> "none"]
    /\ runSt = [p \in Procs |-> "none"]
    /\ image = [p \in Procs |-> Absent]
    /\ outcome = [p \in Procs |-> NoOutcome]

(***************************************************************************)
(* DeriveData::implement and the two derive macros.                        *)
(***************************************************************************)
\* String::pop: the last character is removed, if there is one.
Pop(out) == IF out = "" THEN "" ELSE SubSeq(out, 1, Len(out) - 1)

IsColon(t) == t.kind = "Punct" /\ t.text = ":"

RECURSIVE UntilColon(_)
\* The 'inner loop: the tokens of a segment are appended up to its first ":".
UntilColon(seg) ==
    IF seg = <<>> \/ IsColon(Head(seg)) THEN ""
    ELSE TokenToString(Head(seg)) \o UntilColon(Tail(seg))

RECURSIVE SecondGeneric(_)
\* The loop over self.generic.split(..): each segment is followed by ",".
SecondGeneric(segs) ==
    IF segs = <<>> THEN ""
    ELSE UntilColon(Head(segs)) \o "," \o SecondGeneric(Tail(segs))

FieldStatement(f, w) ==
    IF w = "From" THEN "self." \o f.name \o "=" \o f.data_type \o "::from_binary(binary),"
    ELSE "self." \o f.name \o ".to_binary(write);"

RECURSIVE FieldStatements(_, _)
\* The loop over self.fields.
FieldStatements(fields, w) ==
    IF fields = <<>> THEN ""
    ELSE FieldStatement(Head(fields), w) \o FieldStatements(Tail(fields), w)

TraitFor(w) == IF w = "From" THEN " FromBinary for " ELSE " ToBinary for "

FnOpen(w) ==
    IF w = "From" THEN "{ fn from_binary(binary: &mut dyn std::io::Read) -> Self {"
    ELSE "{ fn to_binary(self, write: &mut dyn std::io::Write) {"

Implement(d, w) ==
    Pop("impl" \o CollectString(d.generic) \o TraitFor(w) \o d.name
        \o SecondGeneric(Split(d.generic)))
    \o FnOpen(w) \o FieldStatements(d.fields, w) \o "}}"

\* DeriveData::from(input).implement(w).parse::<TokenStream>().unwrap()
DeriveMacro(w) ==
    /\ which = "none"
    /\ which' = w
    /\ data' = DeriveDataFrom(input)
    /\ emitted' = IF data'.status = "panic" THEN Panicked(data'.msg)
                  ELSE IF ParsesAsTokenStream(Implement(data', w))
                      THEN Returned(Implement(data', w))
                  ELSE Panicked("parse")
    /\ UNCHANGED <<item, input, execVars>>

from_binary == DeriveMacro("From")

to_binary == DeriveMacro("To")

InitDerive ==
    /\ ExecIdle
    /\ which = "none"
    /\ data = NoData
    /\ emitted = NoOutcome
    /\ \/ \E it \in Items : item = it /\ input = Tokenize(it)
       \/ item = NoItem /\ input \in RawInputs

NextDerive ==
    \/ from_binary
    \/ to_binary

SpecDerive == InitDerive /\ [][NextDerive]_vars

Init ==
    /\ ExecIdle
    /\ DeriveIdle

\* The state every invocation starts from.
Begin(p, n, b) ==
    /\ pc[p] = "idle"
    /\ name' = [name EXCEPT ![p] = n]
    /\ body' = [body EXCEPT ![p] = b]
    /\ compileSt' = [compileSt EXCEPT ![p] = "none"]
    /\ runSt' = [runSt EXCEPT ![p] = "none"]
    /\ image' = [image EXCEPT ![p] = Absent]

\* std::fs::write(&rs_path, code) succeeds; DeleteOnDrop::new(&rs_path).
WriteSource(p, n, b) ==
    /\ Begin(p, n, b)
    /\ dir' = FsWrite(dir, RsPath(n), b)
    /\ guards' = [guards EXCEPT ![p] = DeleteOnDropNew({}, RsPath(n))]
    /\ outcome' = [outcome EXCEPT ![p] = NoOutcome]
    /\ pc' = [pc EXCEPT ![p] = "compile"]
    /\ UNCHANGED deriveVars

\* std::fs::write fails: .expect("failed to make file") panics, no guard exists yet.
WriteFails(p, n, b) ==
    /\ Begin(p, n, b)
    /\ guards' = [guards EXCEPT ![p] = {}]
    /\ outcome' = [outcome EXCEPT ![p] = Panicked("failed to make file")]
    /\ UNCHANGED <<dir, pc, deriveVars>>

\* Command::new("rustc").arg(&rs_path)...spawn(): rustc starts and reads the source file.
SpawnRustc(p) ==
    /\ pc[p] = "compile"
    /\ compileSt' = [compileSt EXCEPT ![p] = "running"]
    /\ image' = [image EXCEPT ![p] = dir[RsPath(name[p])]]
    /\ pc' = [pc EXCEPT ![p] = "rustc"]
    /\ UNCHANGED <<dir, name, body, guards, runSt, outcome, deriveVars>>

\* spawn() returns Err: .expect("failed to compile") panics.
SpawnRustcFails(p) ==
    /\ pc[p] = "compile"
    /\ compileSt' = [compileSt EXCEPT ![p] = "spawn_failed"]
    /\ outcome' = [outcome EXCEPT ![p] = Panicked("failed to compile: Err")]
    /\ pc' = [pc EXCEPT ![p] = "drop_rs"]
    /\ UNCHANGED <<dir, name, body, guards, runSt, image, deriveVars>>

\* rustc exits: with the binary written when the source it read compiles.
RustcExits(p) ==
    /\ pc[p] = "rustc"
    /\ IF image[p].kind = "source" /\ Compiles(image[p].body)
          THEN /\ dir' = [dir EXCEPT ![BinPath(name[p])] = BinaryOf(image[p].body)]
               /\ compileSt' = [compileSt EXCEPT ![p] = "ok"]
          ELSE /\ dir' = dir
               /\ compileSt' = [compileSt EXCEPT ![p] = "failed"]
    /\ image' = [image EXCEPT ![p] = Absent]
    /\ pc' = [pc EXCEPT ![p] = "wait"]
    /\ UNCHANGED <<name, body, guards, runSt, outcome, deriveVars>>

\* c.wait() returns; `if !compile_status.success() { panic!(..) }`; otherwise
\* bin_path is computed and DeleteOnDrop::new(&bin_path) is created.
CheckCompile(p) ==
    /\ pc[p] = "wait"
    /\ IF CompileFailed(compileSt[p])
          THEN /\ outcome' = [outcome EXCEPT ![p] = Panicked("failed to compile: status")]
               /\ pc' = [pc EXCEPT ![p] = "drop_rs"]
               /\ guards' = guards
          ELSE /\ guards' = [guards EXCEPT ![p] = DeleteOnDropNew(guards[p], BinPath(name[p]))]
               /\ pc' = [pc EXCEPT ![p] = "run"]
               /\ outcome' = outcome
    /\ UNCHANGED <<dir, name, body, compileSt, runSt, image, deriveVars>>

\* Command::new(&bin_path).output() starts the child: the binary is loaded.
SpawnBinary(p) ==
    /\ pc[p] = "run"
    /\ dir[BinPath(name[p])].kind = "binary"
    /\ runSt' = [runSt EXCEPT ![p] = "running"]
    /\ image' = [image EXCEPT ![p] = dir[BinPath(name[p])]]
    /\ pc' = [pc EXCEPT ![p] = "running"]
    /\ UNCHANGED <<dir, name, body, guards, compileSt, outcome, deriveVars>>

\* output() returns Err (no file at bin_path, or the system refuses to start
\* it): .expect("failed to run file") panics.
SpawnBinaryFails(p) ==
    /\ pc[p] = "run"
    /\ runSt' = [runSt EXCEPT ![p] = "spawn_failed"]
    /\ outcome' = [outcome EXCEPT ![p] = Panicked("failed to run file: Err")]
    /\ pc' = [pc EXCEPT ![p] = "drop_bin"]
    /\ UNCHANGED <<dir, name, body, guards, compileSt, image, deriveVars>>

\* The child exits and output() returns; the status check; from_utf8; parse.
CheckRun(p) ==
    /\ pc[p] = "running"
    /\ LET status == IF ExitsOk(image[p].body) THEN "ok" ELSE "failed"
       IN /\ runSt' = [runSt EXCEPT ![p] = status]
          /\ outcome' = [outcome EXCEPT ![p] =
                IF RunFailed(status) THEN Panicked("failed to run file: status")
                ELSE Reparse(Stdout(image[p].body))]
    /\ image' = [image EXCEPT ![p] = Absent]
    /\ pc' = [pc EXCEPT ![p] = "drop_bin"]
    /\ UNCHANGED <<dir, name, body, guards, compileSt, deriveVars>>

\* Scope exit (return or unwind): _bin_path_guard is dropped first.
DropBinGuard(p) ==
    /\ pc[p] = "drop_bin"
    /\ dir' = IF BinPath(name[p]) \in guards[p] THEN RemoveFile(dir, BinPath(name[p])) ELSE dir
    /\ guards' = [guards EXCEPT ![p] = @ \ {BinPath(name[p])}]
    /\ pc' = [pc EXCEPT ![p] = "drop_rs"]
    /\ UNCHANGED <<name, body, compileSt, runSt, image, outcome, deriveVars>>

\* Scope exit: _rs_path_guard is dropped last; the invocation has ended and
\* its locals are gone (only what it evaluated to is kept).
DropRsGuard(p) ==
    /\ pc[p] = "drop_rs"
    /\ dir' = IF RsPath(name[p]) \in guards[p] THEN RemoveFile(dir, RsPath(name[p])) ELSE dir
    /\ guards' = [guards EXCEPT ![p] = @ \ {RsPath(name[p])}]
    /\ pc' = [pc EXCEPT ![p] = "idle"]
    /\ name' = [name EXCEPT ![p] = "a"]
    /\ body' = [body EXCEPT ![p] = "print5"]
    /\ compileSt' = [compileSt EXCEPT ![p] = "none"]
    /\ runSt' = [runSt EXCEPT ![p] = "none"]
    /\ UNCHANGED <<image, outcome, deriveVars>>

\* Callers keep the names of concurrent invocations pairwise distinct.
NameIsFree(p, n) == \A q \in Procs \ {p} : pc[q] # "idle" => name[q] # n


Next ==
    \/ \E p \in Procs, n \in Names, b \in Bodies : WriteSource(p, n, b)
    \/ \E p \in Procs, n \in Names, b \in Bodies : WriteFails(p, n, b)
    \/ \E p \in Procs : SpawnRustc(p)
    \/ \E p \in Procs : SpawnRustcFails(p)
    \/ \E p \in Procs : RustcExits(p)
    \/ \E p \in Procs : CheckCompile(p)
    \/ \E p \in Procs : SpawnBinary(p)
    \/ \E p \in Procs : SpawnBinaryFails(p)
    \/ \E p \in Procs : CheckRun(p)
    \/ \E p \in Procs : DropBinGuard(p)
    \/ \E p \in Procs : DropRsGuard(p)

Spec == Init /\ [][Next]_vars

NextDistinct ==
    \/ \E p \in Procs, n \in Names, b \in Bodies : NameIsFree(p, n) /\ WriteSource(p, n, b)
    \/ \E p \in Procs, n \in Names, b \in Bodies : NameIsFree(p, n) /\ WriteFails(p, n, b)
    \/ \E p \in Procs : SpawnRustc(p)
    \/ \E p \in Procs : SpawnRustcFails(p)
    \/ \E p \in Procs : RustcExits(p)
    \/ \E p \in Procs : CheckCompile(p)
    \/ \E p \in Procs : SpawnBinary(p)
    \/ \E p \in Procs : SpawnBinaryFails(p)
    \/ \E p \in Procs : CheckRun(p)
    \/ \E p \in Procs : DropBinGuard(p)
    \/ \E p \in Procs : DropRsGuard(p)

SpecDistinct == Init /\ [][NextDistinct]_vars

(***************************************************************************)
(* Properties of the derive pipeline.                                      *)
(***************************************************************************)
Least(S) == CHOOSE i \in S : \A j \in S : i <= j

\* Positions of the top-level identifiers `struct` and `enum`.
KwPositions(ts) ==
    { i \in 1..Len(ts) : ts[i].kind = "Ident" /\ ts[i].text \in {"struct", "enum"} }

\* Positions of the nested groups after position `from`.
GroupPositionsAfter(ts, from) == { i \in (from + 1)..Len(ts) : ts[i].kind = "Group" }

\* The stream has a kind, then an identifier, then (somewhere) a group.
HeaderOk(ts) ==
    /\ KwPositions(ts) # {}
    /\ Least(KwPositions(ts)) < Len(ts)
    /\ ts[Least(KwPositions(ts)) + 1].kind = "Ident"
    /\ GroupPositionsAfter(ts, Least(KwPositions(ts)) + 1) # {}

\* The interior of the first group after the name.
BodyOf(ts) == ts[Least(GroupPositionsAfter(ts, Least(KwPositions(ts)) + 1))].stream

Contains(text, pat) ==
    \E k \in 1..(Len(text) - Len(pat) + 1) : SubSeq(text, k, k + Len(pat) - 1) = pat

EndsWith(text, pat) ==
    /\ Len(pat) <= Len(text)
    /\ SubSeq(text, Len(text) - Len(pat) + 1, Len(text)) = pat

\* C5: when a segment of the body group has fewer than 3 tokens the parse
\* panics, and no parsed field has an empty type text.
ShortSegmentAborts ==
    (which # "none" /\ HeaderOk(input)) =>
        /\ (\E i \in 1..Len(Split(BodyOf(input))) : Len(Split(BodyOf(input))[i]) < 3)
              => data.status = "panic"
        /\ \A i \in 1..Len(data.fields) : data.fields[i].data_type # ""

\* The statements a declared field list stands for, in declared order.
DeclaredStatements(fields, w) ==
    FieldStatements([i \in 1..Len(fields) |->
                        [name |-> fields[i].name, data_type |-> CollectString(fields[i].ty)]], w)

\* C6: for a declaration with fields f1..fN (N >= 0, trailing comma or not,
\* any type text) either macro emits exactly the N field statements of
\* f1..fN, in declared order.
FieldStatementsInDeclaredOrder ==
    (which # "none" /\ item.kind = "struct"
        /\ \A i \in 1..Len(item.fields) : item.fields[i].vis = <<>>) =>
        /\ emitted.kind = "returned"
        /\ EndsWith(emitted.val, FnOpen(which) \o DeclaredStatements(item.fields, which) \o "}}")

\* C7: for generics `T: Clone, U: Default` the text between the type name and
\* the function is the name-only list T,U (bare or in its angle brackets);
\* without generics it is empty.
BoundFreeGenericsRendered ==
    (which # "none" /\ item.kind = "struct" /\ emitted.kind = "returned") =>
        /\ (Len(item.generics) = 2 /\ item.generics[1].bound # <<>>)
              => \/ Contains(emitted.val, TraitFor(which) \o "S" \o "T,U" \o FnOpen(which))
                 \/ Contains(emitted.val, TraitFor(which) \o "S" \o "<T,U>" \o FnOpen(which))
        /\ item.generics = <<>>
              => Contains(emitted.val, TraitFor(which) \o "S" \o FnOpen(which))

\* C8: without a top-level `struct`/`enum` identifier the parse panics; so it
\* does unless an identifier follows the first one, and unless a group
\* follows that; a successful parse has the kind and name of those tokens,
\* exactly the tokens between the name and the first group as generic, and
\* one field per segment of that group's interior.
ParseHeaderContract ==
    which # "none" =>
        LET ts == input
            K == KwPositions(ts)
        IN IF K = {} THEN data = Failed("Missing what it is(struct/enum)")
           ELSE LET w == Least(K) IN
                IF w = Len(ts) THEN data = Failed("Missing name")
                ELSE IF ts[w + 1].kind # "Ident" THEN data = Failed("name is not an Ident")
                ELSE LET G == GroupPositionsAfter(ts, w + 1) IN
                     IF G = {} THEN data = Failed("Could not get fields")
                     ELSE /\ data.status \in {"ok", "panic"}
                          /\ data.status = "ok" =>
                                /\ data.what = (IF ts[w].text = "struct" THEN "Struct" ELSE "Enum")
                                /\ data.name = ts[w + 1].text
                                /\ data.generic = SubSeq(ts, w + 2, Least(G) - 1)
                                /\ Len(data.fields) = Len(Split(ts[Least(G)].stream))
                                /\ \A i \in 1..Len(data.fields) :
                                      data.fields[i].name = Split(ts[Least(G)].stream)[i][1].text

\* C8 witness: a successful parse that skipped tokens before the kind and
\* collected generic tokens before the group.
ParsedWithGenerics ==
    /\ which # "none"
    /\ data.status = "ok"
    /\ data.generic # <<>>
    /\ Least(KwPositions(input)) > 1

\* C9: in every segment of a parsed body token 1 is the colon, token 0 is the
\* field's name and the tokens from index 2 on are its type text.
SegmentShapeRequired ==
    (which # "none" /\ data.status = "ok") =>
        \A i \in 1..Len(Split(BodyOf(input))) :
            LET seg == Split(BodyOf(input))[i] IN
            /\ IsColon(seg[2])
            /\ data.fields[i].name = seg[1].text
            /\ data.fields[i].data_type = CollectString(SubSeq(seg, 3, Len(seg)))

(***************************************************************************)
(* Properties of the snippet-execution pipeline.                           *)
(***************************************************************************)
Active(p) == pc[p] # "idle"

\* C1: once no invocation that uses a name is in progress (every invocation
\* of that name has ended, by return or by panic at any step), neither
\* {name}.rs nor ./name exists in the working directory.
NoResidualFiles ==
    \A n \in Names :
        (\A p \in Procs : Active(p) => name[p] # n)
            => dir[RsPath(n)] = Absent /\ dir[BinPath(n)] = Absent

\* C1 witness: every invocation has ended, one by returning tokens and one
\* by the compile-failure panic, and they wrote their source files.
EndedAfterCompileFailure ==
    /\ \A p \in Procs : ~Active(p)
    /\ \E p \in Procs : outcome[p] = Panicked("failed to compile: status")
    /\ \E p \in Procs : outcome[p].kind = "returned"

\* C2: rustc is started only with the source guard armed; the binary is
\* started only after rustc has exited and with both guards armed.
GuardsArmedBeforeSpawn ==
    [][\A p \in Procs :
          /\ (compileSt[p] = "none" /\ compileSt'[p] = "running")
                => RsPath(name[p]) \in guards[p] /\ runSt[p] = "none"
          /\ (runSt[p] = "none" /\ runSt'[p] = "running")
                => /\ compileSt[p] = "ok"
                   /\ RsPath(name[p]) \in guards[p]
                   /\ BinPath(name[p]) \in guards[p]]_vars

\* C2 witness: the binary is running, after a successful compile.
BinaryRunning ==
    \E p \in Procs :
        /\ runSt[p] = "running" /\ compileSt[p] = "ok"
        /\ guards[p] = {RsPath(name[p]), BinPath(name[p])}

\* C3: after a failed compile the binary is never started and the invocation
\* ends by the compile panic; after a failed run it ends by the run panic;
\* in neither case are tokens returned.
ToolchainFailureIsFatal ==
    \A p \in Procs :
        /\ compileSt[p] = "failed"
              => /\ runSt[p] = "none"
                 /\ pc[p] \in {"wait", "drop_rs"}
                 /\ pc[p] = "drop_rs" => outcome[p] = Panicked("failed to compile: status")
        /\ runSt[p] = "failed"
              => /\ pc[p] \in {"drop_bin", "drop_rs"}
                 /\ outcome[p] = Panicked("failed to run file: status")

\* C3 witness: one invocation unwinding from a failed compile, another from
\* a failed run.
BothToolchainFailures ==
    \E p, q \in Procs :
        /\ compileSt[p] = "failed" /\ pc[p] = "drop_rs"
        /\ runSt[q] = "failed" /\ pc[q] = "drop_rs"

\* What one invocation evaluates to when nothing else touches the directory.
SoloOutcome(b) ==
    IF ~Compiles(b) THEN Panicked("failed to compile: status")
    ELSE IF ~ExitsOk(b) THEN Panicked("failed to run file: status")
    ELSE Reparse(Stdout(b))

\* The file invocation p still needs is in place.
SourcePending(p) == pc[p] = "compile"

BinaryPending(p) == pc[p] \in {"wait", "run"} /\ compileSt[p] = "ok"

\* C4: a source file is overwritten or removed before its invocation has
\* compiled it, or a binary before its invocation has run it, only by a step
\* of another invocation that uses the same name.
ClobberOnlyBySameName ==
    [][\A p \in Procs :
          \/ /\ SourcePending(p) /\ pc'[p] = pc[p]
             /\ dir'[RsPath(name[p])] # dir[RsPath(name[p])]
          \/ /\ BinaryPending(p) /\ pc'[p] = pc[p]
             /\ dir'[BinPath(name[p])] # dir[BinPath(name[p])]
          => \E q \in Procs \ {p} :
                \/ Active(q) /\ name[q] = name[p]
                \/ pc'[q] # "idle" /\ name'[q] = name[p]]_vars

\* C4 witness: two invocations with the same name; one has yet to compile
\* and its source file now holds the other's code.
SourceClobbered ==
    \E p \in Procs, q \in Procs :
        /\ p # q /\ Active(q) /\ name[q] = name[p]
        /\ SourcePending(p)
        /\ dir[RsPath(name[p])] = SourceOf(body[q])
        /\ body[q] # body[p]

\* C10: with pairwise distinct names, every file in the directory is the one
\* its own invocation put there, every invocation finds its own source and
\* binary, and it ends as it does when it runs alone.
DistinctNamesIsolated ==
    /\ \A n \in Names :
          /\ dir[RsPath(n)] # Absent
                => \E p \in Procs : Active(p) /\ name[p] = n /\ dir[RsPath(n)] = SourceOf(body[p])
          /\ dir[BinPath(n)] # Absent
                => \E p \in Procs : Active(p) /\ name[p] = n /\ dir[BinPath(n)] = BinaryOf(body[p])
    /\ \A p \in Procs :
          /\ SourcePending(p) => dir[RsPath(name[p])] = SourceOf(body[p])
          /\ pc[p] = "rustc" => image[p] = SourceOf(body[p])
          /\ compileSt[p] \in {"ok", "failed"} => (compileSt[p] = "ok") = Compiles(body[p])
          /\ BinaryPending(p) => dir[BinPath(name[p])] = BinaryOf(body[p])
          /\ pc[p] = "running" => image[p] = BinaryOf(body[p])
          /\ (pc[p] \in {"drop_bin", "drop_rs"}
                /\ compileSt[p] # "spawn_failed" /\ runSt[p] # "spawn_failed")
                => outcome[p] = SoloOutcome(body[p])

\* C10 witness: two invocations with different names in progress at once,
\* one unwinding with its tokens returned, the other about to run its binary.
TwoNamesInFlight ==
    \E p, q \in Procs :
        /\ name[p] # name[q]
        /\ pc[p] = "drop_bin" /\ outcome[p].kind = "returned"
        /\ pc[q] = "run"

====
